---------------------------- MODULE Spec2Model ----------------------------
(***************************************************************************)
(* A model of the Rally Prometheus exporter, exporter/rally_exporter.py:   *)
(* the metric registry, the two result-file loaders, update_metrics, and   *)
(* the /metrics and /ready handlers.                                       *)
(*                                                                         *)
(* JSON values are tagged records.  A JSON object is the ordered sequence  *)
(* of its [k, v] pairs (a Python dict keeps the file's key order, and the  *)
(* order decides which series exist when a handler raises half way).       *)
(* Numbers are integers.  A string is Str(s) with s a TLA+ string, or      *)
(* Chars(c) with c the sequence of its characters where the characters are *)
(* read one by one (the run timestamp).                                    *)
(***************************************************************************)
EXTENDS Integers, Sequences, FiniteSets, TLC

VARIABLES
    summaryFile,   \* state of RESULTS_DIR/latest_summary.json
    cleanupFile,   \* state of RESULTS_DIR/cleanup_metrics.json
    registry,      \* the CollectorRegistry: every gauge and the error counter
    resp,          \* the response to the last request, NoResp once a result
                   \* file has been rewritten since
    pc,            \* per worker thread: where it is in a /metrics request
    loaded         \* per worker thread: the documents its pass has loaded

vars == <<summaryFile, cleanupFile, registry, resp, pc, loaded>>

---------------------------------------------------------------------------
(* Bounds of the model. *)

\* Cap on each rally_exporter_errors_total series (an unbounded counter).
MaxErrors == 2

\* Number of worker threads of the threaded server that are modelled.
MaxThreads == 2

---------------------------------------------------------------------------
(* JSON values. *)

Null     == [t |-> "null"]
Num(n)   == [t |-> "num", n |-> n]
Bool(b)  == [t |-> "bool", b |-> b]
Str(s)   == [t |-> "str", s |-> s]
Chars(c) == [t |-> "str", c |-> c]
Arr(a)   == [t |-> "arr", a |-> a]
Obj(o)   == [t |-> "obj", o |-> o]
KV(k, v) == [k |-> k, v |-> v]

\* File states that are not a parsed document.
Missing    == [t |-> "missing"]      \* open() raises FileNotFoundError
Unreadable == [t |-> "unreadable"]   \* open() raises another OSError
NotJson    == [t |-> "notjson"]      \* json.load raises JSONDecodeError

IsPlain(v) == v.t = "str" /\ "s" \in DOMAIN v

RECURSIVE Lookup(_, _, _)
Lookup(o, key, default) ==
    IF o = <<>> THEN default
    ELSE IF Head(o).k = key THEN Head(o).v
    ELSE Lookup(Tail(o), key, default)

\* dict.get(key, default); the caller has checked that d is a dict.
Get(d, key, default) == Lookup(d.o, key, default)

\* bool(v)
Truthy(v) ==
    CASE v.t = "null" -> FALSE
      [] v.t = "bool" -> v.b
      [] v.t = "num"  -> v.n # 0
      [] v.t = "str"  -> IF IsPlain(v) THEN v.s # "" ELSE v.c # <<>>
      [] v.t = "arr"  -> v.a # <<>>
      [] v.t = "obj"  -> v.o # <<>>

\* The strings of the model that float() accepts, with their values.
NumericStrings == ("0" :> 0) @@ ("3" :> 3)

\* float(v): [ok, n]; ok is FALSE where float raises TypeError or ValueError.
ToFloat(v) ==
    CASE v.t = "num"  -> [ok |-> TRUE, n |-> v.n]
      [] v.t = "bool" -> [ok |-> TRUE, n |-> IF v.b THEN 1 ELSE 0]
      [] v.t = "str"  ->
            IF IsPlain(v) /\ v.s \in DOMAIN NumericStrings
            THEN [ok |-> TRUE, n |-> NumericStrings[v.s]]
            ELSE [ok |-> FALSE, n |-> 0]
      [] OTHER -> [ok |-> FALSE, n |-> 0]

\* `v > 0` with v a parsed JSON value: [ok, gt]; ok is FALSE on TypeError.
GreaterThanZero(v) ==
    CASE v.t = "num"  -> [ok |-> TRUE, gt |-> v.n > 0]
      [] v.t = "bool" -> [ok |-> TRUE, gt |-> v.b]
      [] OTHER -> [ok |-> FALSE, gt |-> FALSE]

\* `v == 0`
EqualsZero(v) ==
    CASE v.t = "num"  -> v.n = 0
      [] v.t = "bool" -> ~v.b
      [] OTHER -> FALSE

\* str(v), as prometheus_client applies it to a label value.
LabelStr(v) ==
    CASE v.t = "str" /\ IsPlain(v) -> v.s
      [] v.t = "num"  -> ToString(v.n)
      [] v.t = "null" -> "None"
      [] v.t = "bool" -> IF v.b THEN "True" ELSE "False"
      [] v.t = "arr" /\ v.a = <<>> -> "[]"
      [] v.t = "obj" /\ v.o = <<>> -> "{}"

RECURSIVE KeysOf(_)
KeysOf(o) == IF o = <<>> THEN <<>> ELSE <<Str(Head(o).k)>> \o KeysOf(Tail(o))

\* iter(v) of a `for` loop: [ok, items]; ok is FALSE where v is not iterable.
Iter(v) ==
    CASE v.t = "arr" -> [ok |-> TRUE, items |-> v.a]
      [] v.t = "obj" -> [ok |-> TRUE, items |-> KeysOf(v.o)]
      [] v.t = "str" /\ IsPlain(v) /\ v.s = "" -> [ok |-> TRUE, items |-> <<>>]
      [] v.t = "str" /\ ~IsPlain(v) ->
            [ok |-> TRUE, items |-> [i \in 1..Len(v.c) |-> Chars(<<v.c[i]>>)]]
      [] v.t \in {"null", "num", "bool"} -> [ok |-> FALSE, items |-> <<>>]

---------------------------------------------------------------------------
(* Timestamps: datetime.strptime(ts, "%Y%m%dT%H%M%SZ") and its epoch.  The *)
(* candidates of the model are 16 characters long (zero-padded fields) or  *)
(* plain strings that hold no timestamp at all.                            *)

Digit == ("0" :> 0) @@ ("1" :> 1) @@ ("2" :> 2) @@ ("3" :> 3) @@ ("4" :> 4)
         @@ ("5" :> 5) @@ ("6" :> 6) @@ ("7" :> 7) @@ ("8" :> 8) @@ ("9" :> 9)

RECURSIVE DigitsValue(_)
DigitsValue(c) ==
    IF c = <<>> THEN 0
    ELSE 10 * DigitsValue(SubSeq(c, 1, Len(c) - 1)) + Digit[c[Len(c)]]

IsLeap(y) == (y % 4 = 0 /\ y % 100 # 0) \/ y % 400 = 0

DaysInMonth(y, m) ==
    IF m = 2 THEN (IF IsLeap(y) THEN 29 ELSE 28)
    ELSE IF m \in {4, 6, 9, 11} THEN 30 ELSE 31

\* Days from 1970-01-01 to the civil date y-m-d (proleptic Gregorian).
DaysFromCivil(y, m, d) ==
    LET yy  == IF m <= 2 THEN y - 1 ELSE y
        era == yy \div 400
        yoe == yy - era * 400
        mp  == IF m > 2 THEN m - 3 ELSE m + 9
        doy == (153 * mp + 2) \div 5 + d - 1
        doe == yoe * 365 + yoe \div 4 - yoe \div 100 + doy
    IN  era * 146097 + doe - 719468

\* strptime on a string, then .replace(tzinfo=utc).timestamp(), in whole
\* seconds: [ok, epoch]; ok is FALSE where strptime raises ValueError.
Strptime(v) ==
    IF IsPlain(v) THEN [ok |-> FALSE, epoch |-> 0]
    ELSE
    LET c == v.c
        shaped == /\ Len(c) = 16
                  /\ c[9] = "T"
                  /\ c[16] = "Z"
                  /\ \A i \in (1..8) \cup (10..15) : c[i] \in DOMAIN Digit
    IN  IF ~shaped THEN [ok |-> FALSE, epoch |-> 0]
        ELSE
        LET y  == DigitsValue(SubSeq(c, 1, 4))
            mo == DigitsValue(SubSeq(c, 5, 6))
            d  == DigitsValue(SubSeq(c, 7, 8))
            h  == DigitsValue(SubSeq(c, 10, 11))
            mi == DigitsValue(SubSeq(c, 12, 13))
            s  == DigitsValue(SubSeq(c, 14, 15))
            valid == /\ y >= 1
                     /\ mo \in 1..12
                     /\ d >= 1
                     /\ d <= DaysInMonth(y, mo)
                     /\ h <= 23
                     /\ mi <= 59
                     /\ s <= 59
        IN  IF ~valid THEN [ok |-> FALSE, epoch |-> 0]
            ELSE [ok |-> TRUE,
                  epoch |-> DaysFromCivil(y, mo, d) * 86400
                            + h * 3600 + mi * 60 + s]

\* parse_timestamp: 0 on ValueError (no match) and on TypeError (not a str).
parse_timestamp(v) ==
    IF v.t # "str" THEN 0
    ELSE LET p == Strptime(v) IN IF p.ok THEN p.epoch ELSE 0


---------------------------------------------------------------------------
(* The metric registry. *)

EmptyMap == [l \in {} |-> 0]

\* A series `labels` of a gauge set to n.
Put(f, labels, n) == (labels :> n) @@ f

\* Gauge.labels(...): the child series is created, at 0, if it is not there.
Touch(f, labels) == IF labels \in DOMAIN f THEN f ELSE Put(f, labels, 0)

SummaryName == "latest_summary.json"
CleanupName == "cleanup_metrics.json"

\* The registry as the module creates it: labelled metrics have no series,
\* unlabelled gauges are 0.
EmptyRegistry ==
    [rally_task_success                |-> EmptyMap,
     rally_task_duration_seconds       |-> EmptyMap,
     rally_task_iterations_total       |-> EmptyMap,
     rally_task_failures_total         |-> EmptyMap,
     rally_task_sla_passed             |-> EmptyMap,
     rally_service_status              |-> EmptyMap,
     rally_cleanup_failure             |-> EmptyMap,
     rally_orphaned_resources          |-> EmptyMap,
     rally_context_cleanup_warning     |-> EmptyMap,
     rally_context_orphaned_resources  |-> EmptyMap,
     rally_last_run_timestamp          |-> 0,
     rally_overall_success             |-> 0,
     rally_run_duration_seconds        |-> 0,
     rally_exporter_errors_total       |-> EmptyMap]

\* The gauges that carry labels.
LabelledGauges ==
    {"rally_task_success", "rally_task_duration_seconds",
     "rally_task_iterations_total", "rally_task_failures_total",
     "rally_task_sla_passed", "rally_service_status",
     "rally_cleanup_failure", "rally_orphaned_resources",
     "rally_context_cleanup_warning", "rally_context_orphaned_resources"}

\* A faulty list of metrics to clear: the orphan gauges are left out.
ClearedGaugesStale ==
    {"rally_task_success", "rally_task_duration_seconds",
     "rally_task_iterations_total", "rally_task_failures_total",
     "rally_task_sla_passed", "rally_service_status",
     "rally_cleanup_failure", "rally_context_cleanup_warning"}

\* The metrics update_metrics clears first.
ClearedGauges ==
    {"rally_task_success", "rally_task_duration_seconds",
     "rally_task_iterations_total", "rally_task_failures_total",
     "rally_task_sla_passed", "rally_service_status",
     "rally_cleanup_failure", "rally_orphaned_resources",
     "rally_context_cleanup_warning", "rally_context_orphaned_resources"}

\* A faulty clearing loop: the error counter is in the list as well.
ClearMetricsAndCounter(reg) ==
    [g \in DOMAIN reg |->
        IF g \in ClearedGauges \cup {"rally_exporter_errors_total"}
        THEN EmptyMap ELSE reg[g]]

\* for metric in [...]: metric.clear()
ClearMetrics(reg) ==
    [g \in DOMAIN reg |-> IF g \in ClearedGauges THEN EmptyMap ELSE reg[g]]

\* The value of a rally_exporter_errors_total series (0: no such series).
Errors(reg, file) ==
    IF file \in DOMAIN reg.rally_exporter_errors_total
    THEN reg.rally_exporter_errors_total[file] ELSE 0

\* rally_exporter_errors_total.labels(file=...).inc()
CountError(reg, file) ==
    [reg EXCEPT !.rally_exporter_errors_total =
                    Put(@, file, Errors(reg, file) + 1)]

---------------------------------------------------------------------------
(* Data loading.  A load gives [ok, doc, reg]: ok is FALSE where the       *)
(* exception is not one the loader catches and leaves the handler.         *)

DefaultSummary ==
    Obj(<<KV("timestamp", Str("none")), KV("services", Obj(<<>>))>>)

DefaultCleanup ==
    Obj(<<KV("cleanup_failed", Num(0)), KV("orphaned_resources", Obj(<<>>)),
          KV("details", Obj(<<>>))>>)

\* Whether a load of this file state counts an error.
LoadFails(file) == file.t \in {"missing", "notjson"}

\* What both loaders do with a file, its name and their default document.
LoadFile(file, name, default, reg) ==
    CASE file.t = "unreadable" ->
            [ok |-> FALSE, doc |-> default, reg |-> reg]
      [] file.t \in {"missing", "notjson"} ->
            [ok |-> TRUE, doc |-> default, reg |-> CountError(reg, name)]
      [] OTHER ->
            [ok |-> TRUE, doc |-> file, reg |-> reg]

load_latest_summary(file, reg) ==
    LoadFile(file, SummaryName, DefaultSummary, reg)

\* A faulty loader: the default document is returned without counting.
load_cleanup_metricsSilent(file, reg) ==
    IF file.t = "unreadable" THEN [ok |-> FALSE, doc |-> DefaultCleanup, reg |-> reg]
    ELSE [ok |-> TRUE, reg |-> reg,
          doc |-> IF LoadFails(file) THEN DefaultCleanup ELSE file]

load_cleanup_metrics(file, reg) ==
    LoadFile(file, CleanupName, DefaultCleanup, reg)

---------------------------------------------------------------------------
(* update_metrics.  A run is threaded through st = [reg, ok, all_passed]:  *)
(* reg the registry so far, ok FALSE once a statement has raised (every    *)
(* later statement is then skipped), all_passed the local of that name.    *)

Raise(st) == [st EXCEPT !.ok = FALSE]

\* gauge.labels(<labels>).set(n) with n a number computed by the code.
SetSeries(st, gauge, labels, n) ==
    IF ~st.ok THEN st
    ELSE [st EXCEPT !.reg[gauge] = Put(@, labels, n)]

\* gauge.labels(<labels>).set(v) with v taken from the document: the child
\* series is created, then float(v) may raise.
SetValue(st, gauge, labels, v) ==
    IF ~st.ok THEN st
    ELSE IF ToFloat(v).ok
         THEN [st EXCEPT !.reg[gauge] = Put(@, labels, ToFloat(v).n)]
         ELSE [st EXCEPT !.reg[gauge] = Touch(@, labels), !.ok = FALSE]

\* A faulty success flag: any failure count passes.
ScenarioPassedAlways(failures) == 1

\* passed = 1 if failures == 0 else 0
ScenarioPassed(failures) == IF EqualsZero(failures) THEN 1 ELSE 0

\* The body of `for scenario in ...`.
ApplyScenario(st, service, scenario) ==
    IF ~st.ok THEN st
    ELSE IF scenario.t # "obj" THEN Raise(st)
    ELSE
    LET l        == <<service, LabelStr(Get(scenario, "name", Str("unknown")))>>
        failures == Get(scenario, "failures", Num(0))
        s1 == SetValue(st, "rally_task_duration_seconds", l,
                       Get(scenario, "duration", Num(0)))
        s2 == SetValue(s1, "rally_task_iterations_total", l,
                       Get(scenario, "iterations", Num(0)))
        s3 == SetValue(s2, "rally_task_failures_total", l, failures)
        passed == ScenarioPassed(failures)
        s4 == SetSeries(s3, "rally_task_success", l, passed)
        s5 == IF s4.ok /\ passed = 0
              THEN [s4 EXCEPT !.all_passed = FALSE] ELSE s4
    IN  SetSeries(s5, "rally_task_sla_passed", l,
                  IF Truthy(Get(scenario, "sla", Bool(FALSE))) THEN 1 ELSE 0)

RECURSIVE ApplyScenarios(_, _, _)
ApplyScenarios(st, service, items) ==
    IF items = <<>> \/ ~st.ok THEN st
    ELSE ApplyScenarios(ApplyScenario(st, service, Head(items)),
                        service, Tail(items))

\* if status == "passed": ... elif status == "failed": ... else: ...
ServiceStatus(st, service, status) ==
    IF status = Str("passed")
    THEN SetSeries(st, "rally_service_status", service, 1)
    ELSE IF status = Str("failed")
    THEN [SetSeries(st, "rally_service_status", service, 0)
              EXCEPT !.all_passed = FALSE]
    ELSE SetSeries(st, "rally_service_status", service, -1)

\* The body of `for service, data in services.items()`.
ApplyService(st, service, data) ==
    IF ~st.ok THEN st
    ELSE IF data.t # "obj" THEN Raise(st)
    ELSE
    LET s1 == ServiceStatus(st, service, Get(data, "status", Str("pending")))
        it == Iter(Get(data, "scenarios", Arr(<<>>)))
    IN  IF ~it.ok THEN Raise(s1)
        ELSE ApplyScenarios(s1, service, it.items)

RECURSIVE ApplyServices(_, _)
ApplyServices(st, pairs) ==
    IF pairs = <<>> \/ ~st.ok THEN st
    ELSE ApplyServices(ApplyService(st, Head(pairs).k, Head(pairs).v),
                       Tail(pairs))

\* ts = parse_timestamp(...); if ts > 0: rally_last_run_timestamp.set(ts)
LastRunStep(st, summary) ==
    LET ts == parse_timestamp(Get(summary, "timestamp", Str("")))
    IN  IF ts > 0 THEN [st EXCEPT !.reg.rally_last_run_timestamp = ts] ELSE st

\* A faulty run-duration step: the gauge is set whenever the value compares.
RunDurationStepAlways(st, summary) ==
    IF ~st.ok THEN st
    ELSE LET v == Get(summary, "run_duration_seconds", Num(0))
         IN  IF ~GreaterThanZero(v).ok THEN Raise(st)
             ELSE [st EXCEPT !.reg.rally_run_duration_seconds = ToFloat(v).n]

\* run_duration = summary.get(...); if run_duration > 0: gauge.set(...)
RunDurationStep(st, summary) ==
    IF ~st.ok THEN st
    ELSE LET v == Get(summary, "run_duration_seconds", Num(0))
         IN  IF ~GreaterThanZero(v).ok THEN Raise(st)
             ELSE IF GreaterThanZero(v).gt
                  THEN [st EXCEPT !.reg.rally_run_duration_seconds =
                                      ToFloat(v).n]
                  ELSE st

\* rally_overall_success.set(1 if all_passed else 0)
OverallStep(st) ==
    IF ~st.ok THEN st
    ELSE [st EXCEPT !.reg.rally_overall_success =
                        IF st.all_passed THEN 1 ELSE 0]

\* The part of update_metrics that reads the summary.
ApplySummary(reg, summary) ==
    LET st0 == [reg |-> reg, ok |-> TRUE, all_passed |-> TRUE]
    IN  IF summary.t # "obj" THEN Raise(st0)
        ELSE
        LET s1 == LastRunStep(st0, summary)
            services == Get(summary, "services", Obj(<<>>))
        IN  IF services.t # "obj" THEN Raise(s1)
            ELSE RunDurationStep(OverallStep(ApplyServices(s1, services.o)),
                                 summary)

svc_map ==
    ("servers" :> "nova") @@ ("networks" :> "neutron")
    @@ ("routers" :> "neutron") @@ ("security_groups" :> "neutron")
    @@ ("volumes" :> "cinder") @@ ("images" :> "glance")
    @@ ("users" :> "keystone") @@ ("projects" :> "keystone")

\* svc_map.get(resource_type, "unknown")
OwningService(resource_type) ==
    IF resource_type \in DOMAIN svc_map THEN svc_map[resource_type]
    ELSE "unknown"

\* The body of `for service, count in <orphans>.items()`: the flag gauge's
\* child is created before `count > 0` is evaluated.
ApplyOrphan(st, flagGauge, countGauge, service, count) ==
    IF ~st.ok THEN st
    ELSE IF ~GreaterThanZero(count).ok
         THEN [st EXCEPT !.reg[flagGauge] = Touch(@, service), !.ok = FALSE]
         ELSE SetValue(SetSeries(st, flagGauge, service,
                                 IF GreaterThanZero(count).gt THEN 1 ELSE 0),
                       countGauge, <<service, "total">>, count)

RECURSIVE ApplyOrphans(_, _, _, _)
ApplyOrphans(st, flagGauge, countGauge, pairs) ==
    IF pairs = <<>> \/ ~st.ok THEN st
    ELSE ApplyOrphans(ApplyOrphan(st, flagGauge, countGauge,
                                  Head(pairs).k, Head(pairs).v),
                      flagGauge, countGauge, Tail(pairs))

\* for resource_type, count in <details>.items(): ...
RECURSIVE ApplyDetails(_, _, _)
ApplyDetails(st, countGauge, pairs) ==
    IF pairs = <<>> \/ ~st.ok THEN st
    ELSE ApplyDetails(SetValue(st, countGauge,
                               <<OwningService(Head(pairs).k), Head(pairs).k>>,
                               Head(pairs).v),
                      countGauge, Tail(pairs))

\* One `cleanup.get(key, {})` and the loop over its items().
OrphanSection(st, cleanup, key, flagGauge, countGauge) ==
    IF ~st.ok THEN st
    ELSE LET m == Get(cleanup, key, Obj(<<>>))
         IN  IF m.t # "obj" THEN Raise(st)
             ELSE ApplyOrphans(st, flagGauge, countGauge, m.o)

DetailSection(st, cleanup, key, countGauge) ==
    IF ~st.ok THEN st
    ELSE LET m == Get(cleanup, key, Obj(<<>>))
         IN  IF m.t # "obj" THEN Raise(st)
             ELSE ApplyDetails(st, countGauge, m.o)

\* The part of update_metrics that reads the cleanup report.
ApplyCleanup(reg, cleanup) ==
    LET st0 == [reg |-> reg, ok |-> TRUE, all_passed |-> TRUE]
    IN  IF cleanup.t # "obj" THEN Raise(st0)
        ELSE
        LET s1 == OrphanSection(st0, cleanup, "orphaned_resources",
                                "rally_cleanup_failure",
                                "rally_orphaned_resources")
            s2 == DetailSection(s1, cleanup, "details",
                                "rally_orphaned_resources")
            s3 == OrphanSection(s2, cleanup, "context_orphaned_resources",
                                "rally_context_cleanup_warning",
                                "rally_context_orphaned_resources")
        IN  DetailSection(s3, cleanup, "context_details",
                          "rally_context_orphaned_resources")

\* update_metrics() on the registry reg with the files as they are:
\* [ok, reg]; ok is FALSE where it raises, reg is the registry it leaves.
update_metrics(reg, sFile, cFile) ==
    LET r0 == ClearMetrics(reg)
        ls == load_latest_summary(sFile, r0)
    IN  IF ~ls.ok THEN [ok |-> FALSE, reg |-> ls.reg]
        ELSE
        LET lc == load_cleanup_metrics(cFile, ls.reg)
        IN  IF ~lc.ok THEN [ok |-> FALSE, reg |-> lc.reg]
            ELSE
            LET a == ApplySummary(lc.reg, ls.doc)
            IN  IF ~a.ok THEN [ok |-> FALSE, reg |-> a.reg]
                ELSE LET b == ApplyCleanup(a.reg, lc.doc)
                     IN  [ok |-> b.ok, reg |-> b.reg]

---------------------------------------------------------------------------
(* The /ready handler. *)

READY_MAX_AGE_MINUTES == 480

\* A faulty staleness test: an age of exactly the threshold passes.
TooOldStrict(age) == age > READY_MAX_AGE_MINUTES * 60

\* age >= timedelta(minutes=READY_MAX_AGE_MINUTES), age in seconds
TooOld(age) == age >= READY_MAX_AGE_MINUTES * 60

\* The reasons the timestamp gives, in the order the code appends them.
TimestampReasons(timestamp, now) ==
    IF timestamp \in {Str("waiting_for_first_run"), Str("none"), Str("")}
    THEN <<"timestamp_missing">>
    ELSE IF timestamp.t # "str" \/ ~Strptime(timestamp).ok
    THEN <<"timestamp_invalid">>
    ELSE IF TooOld(now - Strptime(timestamp).epoch)
    THEN <<"timestamp_too_old">>
    ELSE <<>>

\* any(data.get("status", "pending") != "pending"
\*     for data in services.values() if isinstance(data, dict))
RECURSIVE AnyNonPending(_)
AnyNonPending(pairs) ==
    IF pairs = <<>> THEN FALSE
    ELSE \/ /\ Head(pairs).v.t = "obj"
            /\ Get(Head(pairs).v, "status", Str("pending")) # Str("pending")
         \/ AnyNonPending(Tail(pairs))

\* round(age_minutes, 2), in hundredths of a minute, of an age in seconds.
AgeMinutes(age) == (10 * age + 3) \div 6

\* A faulty handler: it clears the labelled gauges as a scrape does.
readyClearing(sFile, reg, now) ==
    LET ls == load_latest_summary(sFile, ClearMetrics(reg))
    IN  [reg |-> ls.reg,
         resp |-> [op |-> "ready", status |-> 500, at |-> now]]

\* ready() at time now: [reg, resp], the registry after the load and the
\* response; status 500 where the handler raises.
ready(sFile, reg, now) ==
    LET ls == load_latest_summary(sFile, reg)
        failed == [reg |-> ls.reg,
                   resp |-> [op |-> "ready", status |-> 500, at |-> now]]
    IN  IF ~ls.ok \/ ls.doc.t # "obj" THEN failed
        ELSE
        LET timestamp == Get(ls.doc, "timestamp", Str(""))
            services  == Get(ls.doc, "services", Obj(<<>>))
        IN  IF services.t # "obj" THEN failed
            ELSE
            LET reasons ==
                    TimestampReasons(timestamp, now)
                    \o (IF AnyNonPending(services.o) THEN <<>>
                        ELSE <<"all_services_pending">>)
            IN  [reg |-> ls.reg,
                 resp |->
                    IF reasons # <<>>
                    THEN [op |-> "ready", status |-> 503, at |-> now,
                          ready |-> FALSE, reasons |-> reasons]
                    ELSE [op |-> "ready", status |-> 200, at |-> now,
                          ready |-> TRUE, timestamp |-> timestamp,
                          age_minutes |->
                              AgeMinutes(now - Strptime(timestamp).epoch)]]

---------------------------------------------------------------------------
(* The state machine.  A request handled by Metrics or Ready runs to its   *)
(* end in one step; the Thread actions split one /metrics request into the *)
(* steps between which the threaded server can switch workers.             *)

Threads == 1..MaxThreads

NoResp == [op |-> "none"]
NoDocs == [summary |-> Null, cleanup |-> Null]

\* A load of this file state stays under the cap of the error counter.
UnderCap(file, name) == LoadFails(file) => Errors(registry, name) < MaxErrors

InitOver(SF, CF) ==
    /\ summaryFile \in SF
    /\ cleanupFile \in CF
    /\ registry = EmptyRegistry
    /\ resp = NoResp
    /\ pc = [t \in Threads |-> "idle"]
    /\ loaded = [t \in Threads |-> NoDocs]

\* Whether a scrape that turned registry `before` into `after` removed a
\* labelled series (recorded with the response, for the stale-label case).
Dropped(before, after) ==
    \E g \in LabelledGauges : ~(DOMAIN before[g] \subseteq DOMAIN after[g])

\* The benchmark runner rewrites (or removes) latest_summary.json.
WriteSummary(SF) ==
    /\ \E d \in SF : summaryFile' = d
    /\ resp' = NoResp
    /\ UNCHANGED <<cleanupFile, registry, pc, loaded>>

\* The benchmark runner rewrites (or removes) cleanup_metrics.json.
WriteCleanup(CF) ==
    /\ \E d \in CF : cleanupFile' = d
    /\ resp' = NoResp
    /\ UNCHANGED <<summaryFile, registry, pc, loaded>>

\* GET /metrics: update_metrics(), then generate_latest(registry).
Metrics ==
    /\ \A t \in Threads : pc[t] = "idle"
    /\ UnderCap(summaryFile, SummaryName)
    /\ UnderCap(cleanupFile, CleanupName)
    /\ LET u == update_metrics(registry, summaryFile, cleanupFile)
       IN  /\ registry' = u.reg
           /\ resp' = IF u.ok
                      THEN [op |-> "metrics", status |-> 200,
                            body |-> u.reg, again |-> resp.op = "metrics",
                            dropped |-> Dropped(registry, u.reg)]
                      ELSE [op |-> "metrics", status |-> 500,
                            again |-> resp.op = "metrics"]
    /\ UNCHANGED <<summaryFile, cleanupFile, pc, loaded>>

\* GET /ready at time now.
Ready(NV) ==
    /\ \A t \in Threads : pc[t] = "idle"
    /\ UnderCap(summaryFile, SummaryName)
    /\ \E now \in NV :
          LET r == ready(summaryFile, registry, now)
          IN  registry' = r.reg /\ resp' = r.resp
    /\ UNCHANGED <<summaryFile, cleanupFile, pc, loaded>>

NextOver(SF, CF, NV) ==
    \/ WriteSummary(SF)
    \/ WriteCleanup(CF)
    \/ Metrics
    \/ Ready(NV)

---------------------------------------------------------------------------
(* The result files the benchmark runner can leave. *)

Scenario(name, failures) ==
    Obj(<<KV("name", Str(name)), KV("duration", Num(3)),
          KV("iterations", Num(2)), KV("failures", Num(failures)),
          KV("sla", Bool(failures = 0))>>)

Service(status, scenarios) ==
    Obj(<<KV("status", Str(status)), KV("scenarios", Arr(scenarios))>>)

Summary(timestamp, services) ==
    Obj(<<KV("timestamp", timestamp), KV("services", Obj(services))>>)

TimedSummary(timestamp, duration, services) ==
    Obj(<<KV("timestamp", timestamp), KV("run_duration_seconds", duration),
          KV("services", Obj(services))>>)

\* "20240102T110405Z", "20240102T030405Z" (480 minutes earlier), and a
\* string of the right shape that names no date, "20241302T030405Z".
TsNew == Chars(<<"2", "0", "2", "4", "0", "1", "0", "2", "T",
                 "1", "1", "0", "4", "0", "5", "Z">>)
TsOld == Chars(<<"2", "0", "2", "4", "0", "1", "0", "2", "T",
                 "0", "3", "0", "4", "0", "5", "Z">>)
TsNoDate == Chars(<<"2", "0", "2", "4", "1", "3", "0", "2", "T",
                    "0", "3", "0", "4", "0", "5", "Z">>)

\* The services sections of the model's well-formed summaries.
ServiceSections ==
    { <<>>,
      <<KV("nova", Service("passed", <<Scenario("boot", 0)>>))>>,
      <<KV("nova", Service("passed", <<Scenario("boot", 0)>>)),
        KV("glance", Service("pending", <<>>))>>,
      <<KV("nova", Service("failed",
                           <<Scenario("boot", 2), Scenario("list", 0)>>))>>,
      <<KV("glance", Service("failed", <<Scenario("list", 0)>>))>>,
      <<KV("nova", Service("passed",
                           <<Scenario("boot", 2), Scenario("boot", 0)>>))>>,
      <<KV("cinder", Service("skipped", <<Scenario("boot", 0)>>))>>,
      <<KV("glance",
           Obj(<<KV("scenarios",
                    Arr(<<Obj(<<KV("failures", Num(1))>>), Obj(<<>>)>>))>>))>>
    }

\* Well-formed summaries that differ in their services, and no summary.
ServiceSummaryFiles ==
    {Summary(TsNew, sv) : sv \in ServiceSections} \cup {Missing, NotJson}

CleanupFull ==
    Obj(<<KV("cleanup_failed", Num(1)),
          KV("orphaned_resources",
             Obj(<<KV("nova", Num(2)), KV("glance", Num(0))>>)),
          KV("details",
             Obj(<<KV("servers", Num(2)), KV("floating_ips", Num(1))>>)),
          KV("context_orphaned_resources", Obj(<<KV("neutron", Num(1))>>)),
          KV("context_details", Obj(<<KV("networks", Num(1))>>))>>)

CleanupMinimal ==
    Obj(<<KV("cleanup_failed", Num(1)),
          KV("orphaned_resources", Obj(<<KV("cinder", Num(3))>>)),
          KV("details", Obj(<<KV("volumes", Num(3))>>))>>)

CleanupClean ==
    Obj(<<KV("cleanup_failed", Num(0)), KV("orphaned_resources", Obj(<<>>)),
          KV("details", Obj(<<>>))>>)

CleanupFiles == {CleanupFull, CleanupMinimal, CleanupClean, Missing, NotJson}

\* 2024-01-02T11:04:05Z, the instant of TsNew.
NowAtNew == Strptime(TsNew).epoch

\* Scrapes of well-formed result files whose services vary.
Spec ==
    /\ InitOver(ServiceSummaryFiles, CleanupFiles)
    /\ [][NextOver(ServiceSummaryFiles, CleanupFiles, {NowAtNew})]_vars

---------------------------------------------------------------------------
(* What the claims read off a state.  After a request, and until a result  *)
(* file is rewritten (resp = NoResp), the files are those the request read.*)

Scraped == resp.op = "metrics" /\ resp.status = 200

\* The documents a load of the current files returns.
SummaryRead == IF LoadFails(summaryFile) THEN DefaultSummary ELSE summaryFile
CleanupRead == IF LoadFails(cleanupFile) THEN DefaultCleanup ELSE cleanupFile

Section(doc, key) == Get(doc, key, Obj(<<>>)).o
Keys(pairs)       == {pairs[i].k : i \in 1..Len(pairs)}
Entries(data)     == Get(data, "scenarios", Arr(<<>>)).a
NameOf(scenario)  == Get(scenario, "name", Str("unknown")).s
FailuresOf(scenario) == Get(scenario, "failures", Num(0)).n
StatusOf(data)    == Get(data, "status", Str("pending"))
Min(a, b)         == IF a < b THEN a ELSE b
Inc(file)         == IF LoadFails(file) THEN 1 ELSE 0

OtherMetrics == DOMAIN EmptyRegistry \ {"rally_exporter_errors_total"}

\* C1, as claimed: after a scrape of a valid summary, rally_overall_success
\* is 1 iff every service has status passed and every scenario has
\* failures = 0, and 0 otherwise (so 0 with a pending service).
C1_OverallIffAllPassed ==
    (Scraped /\ summaryFile.t = "obj") =>
        LET svcs == Section(summaryFile, "services")
            allPassed ==
                \A i \in 1..Len(svcs) :
                    /\ StatusOf(svcs[i].v) = Str("passed")
                    /\ \A j \in 1..Len(Entries(svcs[i].v)) :
                           FailuresOf(Entries(svcs[i].v)[j]) = 0
        IN  registry.rally_overall_success = IF allPassed THEN 1 ELSE 0

\* The label sets the files give the labelled gauges.
TaskLabels(doc) ==
    LET svcs == Section(doc, "services")
    IN  UNION {{<<svcs[i].k, NameOf(Entries(svcs[i].v)[j])>> :
                    j \in 1..Len(Entries(svcs[i].v))} : i \in 1..Len(svcs)}

OrphanLabels(doc, totals, details) ==
    {<<k, "total">> : k \in Keys(Section(doc, totals))}
    \cup {<<OwningService(k), k>> : k \in Keys(Section(doc, details))}

\* The count the files give an orphan series: its resource type's entry of
\* the details section, else its service's entry of the totals section.
OrphanCount(doc, totals, details, l) ==
    IF l[2] \in Keys(Section(doc, details)) /\ l[1] = OwningService(l[2])
    THEN Lookup(Section(doc, details), l[2], Null).n
    ELSE Lookup(Section(doc, totals), l[1], Null).n

\* C2: after a scrape, the labelled series are exactly those the files read
\* by that scrape give: no series of a service, scenario or resource type
\* that is gone from the input is left, and the orphan values are those of
\* the current cleanup report.
C2_SeriesAreThoseOfTheFiles ==
    Scraped =>
        LET s == SummaryRead
            c == CleanupRead
        IN  /\ DOMAIN registry.rally_service_status
                   = Keys(Section(s, "services"))
            /\ \A g \in {"rally_task_success", "rally_task_duration_seconds",
                         "rally_task_iterations_total",
                         "rally_task_failures_total", "rally_task_sla_passed"} :
                   DOMAIN registry[g] = TaskLabels(s)
            /\ DOMAIN registry.rally_cleanup_failure
                   = Keys(Section(c, "orphaned_resources"))
            /\ DOMAIN registry.rally_context_cleanup_warning
                   = Keys(Section(c, "context_orphaned_resources"))
            /\ DOMAIN registry.rally_orphaned_resources
                   = OrphanLabels(c, "orphaned_resources", "details")
            /\ DOMAIN registry.rally_context_orphaned_resources
                   = OrphanLabels(c, "context_orphaned_resources",
                                  "context_details")
            /\ \A l \in DOMAIN registry.rally_orphaned_resources :
                   registry.rally_orphaned_resources[l]
                       = OrphanCount(c, "orphaned_resources", "details", l)
            /\ \A l \in DOMAIN registry.rally_context_orphaned_resources :
                   registry.rally_context_orphaned_resources[l]
                       = OrphanCount(c, "context_orphaned_resources",
                                     "context_details", l)

\* C2's case: a scrape that removed series of its predecessor and left the
\* series of a non-empty summary and cleanup report.
C2_Witness ==
    /\ Scraped
    /\ resp.dropped
    /\ registry.rally_service_status # EmptyMap
    /\ registry.rally_orphaned_resources # EmptyMap

\* C3, as claimed: a scrape that follows a scrape with the files unchanged
\* answers with the same registry contents, the error counter included.
C3_RescrapeIdentical ==
    [][(Scraped /\ resp'.op = "metrics" /\ resp'.status = 200 /\ resp'.again)
          => resp'.body = resp.body]_vars

\* C3, amended: such a scrape answers with the same value of every gauge;
\* rally_exporter_errors_total{file} is higher by exactly 1 for each file
\* that is missing or not JSON, and the same for a file that loads.
C3_RescrapeIdenticalButErrors ==
    [][(Scraped /\ resp'.op = "metrics" /\ resp'.status = 200 /\ resp'.again)
          => /\ \A g \in OtherMetrics : resp'.body[g] = resp.body[g]
             /\ Errors(resp'.body, SummaryName)
                    = Errors(resp.body, SummaryName) + Inc(summaryFile)
             /\ Errors(resp'.body, CleanupName)
                    = Errors(resp.body, CleanupName) + Inc(cleanupFile)]_vars

\* C3's case: a second scrape of the same files, one of which does not load.
C3_Witness ==
    /\ Scraped
    /\ resp.again
    /\ LoadFails(summaryFile)
    /\ ~LoadFails(cleanupFile)
    /\ Errors(registry, SummaryName) >= 2

\* C5: rally_exporter_errors_total never decreases; a load of a missing or
\* non-JSON file gives the default document and adds exactly 1 to the
\* series of that file, a load of a well-formed file adds nothing; a scrape
\* with cleanup_metrics.json missing answers 200 with no orphan gauge set.
C5_ErrorCounter ==
    [][/\ \A f \in {SummaryName, CleanupName} :
              Errors(registry', f) >= Errors(registry, f)
       /\ resp'.op = "none" =>
              registry'.rally_exporter_errors_total
                  = registry.rally_exporter_errors_total
       /\ resp'.op = "metrics" =>
              /\ Errors(registry', SummaryName)
                     = Errors(registry, SummaryName) + Inc(summaryFile)
              /\ Errors(registry', CleanupName)
                     = Errors(registry, CleanupName) + Inc(cleanupFile)
              /\ LoadFails(summaryFile) =>
                     /\ registry'.rally_service_status = EmptyMap
                     /\ registry'.rally_task_success = EmptyMap
              /\ LoadFails(cleanupFile) =>
                     /\ resp'.status = 200
                     /\ registry'.rally_cleanup_failure = EmptyMap
                     /\ registry'.rally_orphaned_resources = EmptyMap
                     /\ registry'.rally_context_cleanup_warning = EmptyMap
                     /\ registry'.rally_context_orphaned_resources = EmptyMap
       /\ resp'.op = "ready" =>
              /\ Errors(registry', SummaryName)
                     = Errors(registry, SummaryName) + Inc(summaryFile)
              /\ Errors(registry', CleanupName) = Errors(registry, CleanupName)
              /\ LoadFails(summaryFile) =>
                     /\ resp'.status = 503
                     /\ resp'.reasons
                            = <<"timestamp_missing", "all_services_pending">>
      ]_vars

\* C5's case: a scrape of a well-formed summary with cleanup_metrics.json
\* missing, after an earlier scrape had set orphan gauges.
C5_Witness ==
    /\ Scraped
    /\ resp.dropped
    /\ cleanupFile = Missing
    /\ summaryFile.t = "obj"
    /\ Errors(registry, CleanupName) >= 1
    /\ registry.rally_service_status # EmptyMap

\* C9, as claimed: after a scrape, for every scenario entry of every service
\* rally_task_success{service, name} is 1 - min(failures, 1) of that entry,
\* also when entries of one service share a name.
C9_EveryEntry ==
    (Scraped /\ summaryFile.t = "obj") =>
        LET svcs == Section(summaryFile, "services")
        IN  \A i \in 1..Len(svcs) :
                LET es == Entries(svcs[i].v)
                IN  \A j \in 1..Len(es) :
                        registry.rally_task_success[<<svcs[i].k, NameOf(es[j])>>]
                            = 1 - Min(FailuresOf(es[j]), 1)

\* C9, amended: the gauge is 1 - min(failures, 1) of the last entry of that
\* service that carries that name (of every entry, where names differ).
C9_LastEntryOfEachName ==
    (Scraped /\ summaryFile.t = "obj") =>
        LET svcs == Section(summaryFile, "services")
        IN  \A i \in 1..Len(svcs) :
                LET es == Entries(svcs[i].v)
                IN  \A j \in 1..Len(es) :
                        (\A k \in (j + 1)..Len(es) : NameOf(es[k]) # NameOf(es[j]))
                        => registry.rally_task_success[<<svcs[i].k, NameOf(es[j])>>]
                               = 1 - Min(FailuresOf(es[j]), 1)

\* C9's case: a scraped service with two entries of one name that differ in
\* failures, the later one without failures.
C9_Witness ==
    /\ Scraped
    /\ summaryFile.t = "obj"
    /\ \E i \in 1..Len(Section(summaryFile, "services")) :
           LET es == Entries(Section(summaryFile, "services")[i].v)
           IN  /\ Len(es) = 2
               /\ NameOf(es[1]) = NameOf(es[2])
               /\ FailuresOf(es[1]) > 0
               /\ FailuresOf(es[2]) = 0

---------------------------------------------------------------------------
(* Scrapes of summaries whose run_duration_seconds varies. *)

DurationSummaryFiles ==
    {TimedSummary(TsNew, d, sv) :
        d \in {Num(0), Num(5), Num(7)},
        sv \in {<<>>, <<KV("nova", Service("passed", <<Scenario("boot", 0)>>))>>}}
    \cup {Summary(TsNew, <<>>), Missing, NotJson}

DurationCleanupFiles == {CleanupMinimal, Missing}

SpecDuration ==
    /\ InitOver(DurationSummaryFiles, DurationCleanupFiles)
    /\ [][NextOver(DurationSummaryFiles, DurationCleanupFiles, {NowAtNew})]_vars

\* C10: a scrape sets rally_run_duration_seconds to the summary's
\* run_duration_seconds when that is > 0, and leaves the gauge as the
\* scrape found it when the field is absent or 0 or the file does not load;
\* nothing else changes the gauge.
C10_RunDurationSticky ==
    [][/\ resp'.op = "metrics" =>
              LET d == Get(SummaryRead, "run_duration_seconds", Num(0)).n
              IN  registry'.rally_run_duration_seconds
                      = IF d > 0 THEN d
                        ELSE registry.rally_run_duration_seconds
       /\ resp'.op # "metrics" =>
              registry'.rally_run_duration_seconds
                  = registry.rally_run_duration_seconds
      ]_vars

\* C10's case: a scrape of a summary without a positive run duration (or of
\* no summary) that answers with the value an earlier scrape had set.
C10_Witness ==
    /\ Scraped
    /\ Get(SummaryRead, "run_duration_seconds", Num(0)).n = 0
    /\ registry.rally_run_duration_seconds > 0

---------------------------------------------------------------------------
(* Readiness checks of summaries whose timestamp and statuses vary. *)

ReadyTimestamps ==
    {Str("waiting_for_first_run"), Str("none"), Str(""), Str("garbage"),
     TsNoDate, TsOld, TsNew}

ReadyServiceSections ==
    { <<>>,
      <<KV("nova", Service("pending", <<>>)), KV("glance", Obj(<<>>))>>,
      <<KV("nova", Service("pending", <<>>)),
        KV("glance", Service("failed", <<Scenario("list", 1)>>))>>,
      <<KV("cinder", Service("skipped", <<>>))>> }

ReadySummaryFiles ==
    {Summary(ts, sv) : ts \in ReadyTimestamps, sv \in ReadyServiceSections}
    \cup {Obj(<<KV("services", Obj(sv))>>) : sv \in ReadyServiceSections}
    \cup {Missing, NotJson}

ReadyCleanupFiles == {CleanupMinimal}

\* The instant of TsNew (TsOld is then exactly READY_MAX_AGE_MINUTES old),
\* one second before it, and READY_MAX_AGE_MINUTES after it.
ReadyTimes ==
    {Strptime(TsNew).epoch - 1, Strptime(TsNew).epoch,
     Strptime(TsNew).epoch + READY_MAX_AGE_MINUTES * 60}

SpecReady ==
    /\ InitOver(ReadySummaryFiles, ReadyCleanupFiles)
    /\ [][NextOver(ReadySummaryFiles, ReadyCleanupFiles, ReadyTimes)]_vars

\* The reasons as the claim lists them, for a summary read at time now.
ClaimedReasons(doc, now) ==
    LET ts == Get(doc, "timestamp", Str(""))
        svcs == Section(doc, "services")
        missing == ts \in {Str(""), Str("none"), Str("waiting_for_first_run")}
        invalid == ~missing /\ ~Strptime(ts).ok
        tooOld  == /\ ~missing
                   /\ ~invalid
                   /\ now - Strptime(ts).epoch >= READY_MAX_AGE_MINUTES * 60
        pending == ~\E i \in 1..Len(svcs) : StatusOf(svcs[i].v) # Str("pending")
    IN  (IF missing THEN {"timestamp_missing"} ELSE {})
        \cup (IF invalid THEN {"timestamp_invalid"} ELSE {})
        \cup (IF tooOld THEN {"timestamp_too_old"} ELSE {})
        \cup (IF pending THEN {"all_services_pending"} ELSE {})

\* C6: /ready answers 200 with ready:true iff the list of reasons is empty,
\* and 503 with ready:false and the list otherwise; the list holds
\* timestamp_missing, timestamp_invalid, timestamp_too_old and
\* all_services_pending exactly under the conditions the claim gives.
C6_ReadyReasons ==
    resp.op = "ready" =>
        LET want == ClaimedReasons(SummaryRead, resp.at)
        IN  IF want = {}
            THEN resp.status = 200 /\ resp.ready
            ELSE /\ resp.status = 503
                 /\ ~resp.ready
                 /\ {resp.reasons[i] : i \in 1..Len(resp.reasons)} = want
                 /\ Len(resp.reasons) = Cardinality(want)

\* C6's case: a timestamp exactly READY_MAX_AGE_MINUTES old with a service
\* that is not pending, answered 503 for its age alone.
C6_Witness ==
    /\ resp.op = "ready"
    /\ summaryFile.t = "obj"
    /\ Get(summaryFile, "timestamp", Str("")) = TsOld
    /\ resp.at = Strptime(TsNew).epoch
    /\ resp.status = 503
    /\ resp.reasons = <<"timestamp_too_old">>

---------------------------------------------------------------------------
(* Requests over result files of any content. *)

NovaPassed == <<KV("nova", Service("passed", <<Scenario("boot", 0)>>))>>

AnySummaryFiles ==
    { Missing, NotJson, Unreadable,
      \* []
      Arr(<<>>),
      \* {"timestamp": 5, "services": []}
      Obj(<<KV("timestamp", Num(5)), KV("services", Arr(<<>>))>>),
      \* a service entry that is a string
      Summary(TsNew, NovaPassed \o <<KV("glance", Str("passed"))>>),
      \* a scenario entry that is a string
      Summary(TsNew, <<KV("nova", Service("passed", <<Str("boot")>>))>>),
      \* a failures count that is no number
      Summary(TsNew,
              <<KV("nova", Service("passed",
                     <<Obj(<<KV("name", Str("boot")),
                             KV("failures", Str("many"))>>)>>))>>),
      \* "run_duration_seconds": null
      TimedSummary(TsNew, Null, NovaPassed),
      \* a well-formed summary
      Summary(TsNew, NovaPassed) }

AnyCleanupFiles ==
    { Missing, Unreadable,
      \* null
      Null,
      \* {"orphaned_resources": {"nova": null}}
      Obj(<<KV("orphaned_resources", Obj(<<KV("nova", Null)>>))>>),
      \* a details count that is no number
      Obj(<<KV("orphaned_resources", Obj(<<KV("nova", Num(1))>>)),
            KV("details", Obj(<<KV("servers", Str("many"))>>))>>),
      CleanupFull }

SpecAny ==
    /\ InitOver(AnySummaryFiles, AnyCleanupFiles)
    /\ [][NextOver(AnySummaryFiles, AnyCleanupFiles, {NowAtNew})]_vars

\* C4, as claimed: whatever the two files hold, update_metrics does not
\* raise and /metrics answers 200.
C4_ScrapeNeverFails ==
    resp.op = "metrics" => resp.status = 200

\* C7, as claimed: a /ready request leaves every series of the registry,
\* gauge or counter, as it found it.
C7_ReadyLeavesRegistry ==
    [][resp'.op = "ready" => registry' = registry]_vars

\* C7, amended: a /ready request leaves every gauge as it found it and
\* creates or removes no gauge series; of the error counter it changes only
\* the series of latest_summary.json, by exactly 1 when that file is missing
\* or not JSON and not at all otherwise.
C7_ReadyLeavesGauges ==
    [][resp'.op = "ready" =>
          /\ \A g \in OtherMetrics : registry'[g] = registry[g]
          /\ Errors(registry', CleanupName) = Errors(registry, CleanupName)
          /\ Errors(registry', SummaryName)
                 = Errors(registry, SummaryName) + Inc(summaryFile)]_vars

\* C7's case: a /ready request on a missing or non-JSON summary, with series
\* of an earlier scrape in the registry.
C7_Witness ==
    /\ resp.op = "ready"
    /\ LoadFails(summaryFile)
    /\ registry.rally_service_status # EmptyMap
    /\ Errors(registry, SummaryName) >= 1

---------------------------------------------------------------------------
(* Concurrent /metrics requests.  app.run() serves each request on its own *)
(* thread; a thread can be switched out between any two statements.  The   *)
(* steps below are coarser (the clearing loop, the two loads, the summary  *)
(* part, the cleanup part, the response), so every behaviour of this       *)
(* specification is one of the program.                                    *)

Respond500 == [op |-> "metrics", status |-> 500, again |-> FALSE]

\* for metric in [...]: metric.clear()
Clear(t) ==
    /\ pc[t] = "idle"
    /\ registry' = ClearMetrics(registry)
    /\ pc' = [pc EXCEPT ![t] = "cleared"]
    /\ UNCHANGED <<summaryFile, cleanupFile, resp, loaded>>

\* summary = load_latest_summary(); cleanup = load_cleanup_metrics()
Load(t) ==
    /\ pc[t] = "cleared"
    /\ UnderCap(summaryFile, SummaryName)
    /\ UnderCap(cleanupFile, CleanupName)
    /\ LET ls == load_latest_summary(summaryFile, registry)
           lc == load_cleanup_metrics(cleanupFile, ls.reg)
       IN  IF ls.ok /\ lc.ok
           THEN /\ registry' = lc.reg
                /\ loaded' = [loaded EXCEPT
                                 ![t] = [summary |-> ls.doc, cleanup |-> lc.doc]]
                /\ pc' = [pc EXCEPT ![t] = "loaded"]
                /\ resp' = resp
           ELSE /\ registry' = IF ls.ok THEN lc.reg ELSE ls.reg
                /\ loaded' = loaded
                /\ pc' = [pc EXCEPT ![t] = "idle"]
                /\ resp' = Respond500
    /\ UNCHANGED <<summaryFile, cleanupFile>>

\* The statements of update_metrics that read `summary`.
Summarise(t) ==
    /\ pc[t] = "loaded"
    /\ LET a == ApplySummary(registry, loaded[t].summary)
       IN  /\ registry' = a.reg
           /\ pc' = [pc EXCEPT ![t] = IF a.ok THEN "summarised" ELSE "idle"]
           /\ resp' = IF a.ok THEN resp ELSE Respond500
           /\ loaded' = IF a.ok THEN loaded ELSE [loaded EXCEPT ![t] = NoDocs]
    /\ UNCHANGED <<summaryFile, cleanupFile>>

\* The statements of update_metrics that read `cleanup`.
Populate(t) ==
    /\ pc[t] = "summarised"
    /\ LET b == ApplyCleanup(registry, loaded[t].cleanup)
       IN  /\ registry' = b.reg
           /\ pc' = [pc EXCEPT ![t] = IF b.ok THEN "populated" ELSE "idle"]
           /\ resp' = IF b.ok THEN resp ELSE Respond500
    /\ loaded' = [loaded EXCEPT ![t] = NoDocs]
    /\ UNCHANGED <<summaryFile, cleanupFile>>

\* return Response(generate_latest(registry), ...)
Respond(t) ==
    /\ pc[t] = "populated"
    /\ resp' = [op |-> "metrics", status |-> 200, body |-> registry,
                again |-> FALSE, dropped |-> FALSE]
    /\ pc' = [pc EXCEPT ![t] = "idle"]
    /\ UNCHANGED <<summaryFile, cleanupFile, registry, loaded>>

ConcSummaryFiles ==
    { Summary(TsNew, NovaPassed),
      Summary(TsNew, <<KV("glance", Service("failed", <<Scenario("list", 1)>>))>>) }

ConcCleanupFiles == {CleanupFull, CleanupMinimal}

NextConc ==
    \/ WriteSummary(ConcSummaryFiles)
    \/ WriteCleanup(ConcCleanupFiles)
    \/ \E t \in Threads :
          Clear(t) \/ Load(t) \/ Summarise(t) \/ Populate(t) \/ Respond(t)

SpecConc ==
    /\ InitOver(ConcSummaryFiles, ConcCleanupFiles)
    /\ [][NextConc]_vars

\* The pass of a thread: from its clearing to the end of its repopulating.
InPass(t) == pc[t] \in {"cleared", "loaded", "summarised"}

\* No two scrapes are in their clear-then-repopulate pass at once.
MutualExclusion ==
    \A t, u \in Threads : (t # u) => ~(InPass(t) /\ InPass(u))

\* The labelled series of a response are those of one complete pass of
\* update_metrics over one file set.
SnapshotConsistent ==
    Scraped =>
        \E s \in ConcSummaryFiles, c \in ConcCleanupFiles :
            \A g \in LabelledGauges :
                resp.body[g] = update_metrics(EmptyRegistry, s, c).reg[g]

\* C8, as claimed: under any interleaving of /metrics requests the passes
\* exclude one another, and every response is snapshot-consistent.
C8_PassesExcludeOneAnother ==
    MutualExclusion /\ SnapshotConsistent

=============================================================================
